---- MODULE Spec2Model ----
(***************************************************************************)
(* Model of claude-tracker (python-version):                                *)
(*   claude-with-progress.py       the wrapper: ClaudeWrapper and main()    *)
(*   calculate_session_tokens.py   the session-log reader and the 5-hour    *)
(*                                 reset-time calculator                    *)
(*                                                                         *)
(* Text is modelled by its length (estimate_tokens only looks at len()),   *)
(* except the command-line words, which are kept as strings because main() *)
(* compares them.  total_cost is kept in millionths of a dollar, the unit  *)
(* in which estimate_cost's two rates are whole numbers.  Timestamps are   *)
(* whole seconds.                                                          *)
(***************************************************************************)
EXTENDS Integers, Sequences, FiniteSets, TLC

VARIABLES
    clock,      \* datetime.datetime.now() of the wrapper, one tick per start
    file,       \* the persisted usage file (self.usage_file)
    pc,         \* pc[p]: "idle" (not running) or "main" (constructed, in main)
    argv,       \* argv[p]: sys.argv[1:] of the running invocation
    usage,      \* usage[p]: self.usage of the running invocation
    loaded,     \* loaded[p]: self.usage as load_usage left it
    ret,        \* ret[p]: what the last finished invocation of p did
    seen,       \* what the invocations since the last reset held and rendered
    lines,      \* the session log handed to calculate_session_tokens
    scan,       \* its result, or NotRun
    stamp,      \* first_timestamp handed to calculate_reset_time
    utcnow,     \* datetime.now(timezone.utc) inside calculate_reset_time
    reset       \* its result, or NotRun

vars == <<clock, file, pc, argv, usage, loaded, ret, seen,
          lines, scan, stamp, utcnow, reset>>

wrapperVars == <<clock, file, pc, argv, usage, loaded, ret, seen>>
readerVars  == <<lines, scan, stamp, utcnow, reset>>

(***************************************************************************)
(* Bounds                                                                  *)
(***************************************************************************)
MaxArgs  == 2       \* forwarded arguments per invocation
MaxClock == 2       \* wrapper invocations in a run

\* wrapper processes; only SpecRace lets the second one run
Procs == {1, 2}

\* words that can appear on the command line
ArgWords == {"--reset-session", "--show-usage", "", "hello"}

\* lengths of the wrapped tool's captured stdout
OutLens == {0, 8}

NotRun == [state |-> "notrun"]

(***************************************************************************)
(* ClaudeWrapper: persisted state                                          *)
(***************************************************************************)
FreshUsage(now) ==
    [total_tokens |-> 0, total_cost |-> 0, requests |-> 0, session_start |-> now]

NoFile == [kind |-> "absent", data |-> FreshUsage(0)]
Corrupt == [kind |-> "corrupt", data |-> FreshUsage(0)]
JsonFile(u) == [kind |-> "json", data |-> u]

\* load_usage: the file's object, or fresh zero state when the file is
\* missing or does not parse
load_usage(f, now) ==
    IF f.kind = "json" THEN f.data ELSE FreshUsage(now)

WriteOutcomes == {"ok", "open_fails", "dump_fails"}

\* save_usage: best-effort write, every failure swallowed.  open(..., 'w')
\* failing leaves the file alone; a failure inside json.dump leaves the
\* truncated, unparsable file behind.
save_usage(f, u, w) ==
    CASE w = "ok"         -> JsonFile(u)
      [] w = "open_fails" -> f
      [] w = "dump_fails" -> Corrupt

estimate_tokens(len) == len \div 4

\* millionths of a dollar
estimate_cost(input_tokens, output_tokens) ==
    input_tokens * 3 + output_tokens * 15

RECURSIVE JoinLen(_)
\* len(' '.join(args))
JoinLen(args) ==
    IF Len(args) = 0 THEN 0
    ELSE IF Len(args) = 1 THEN Len(args[1])
    ELSE Len(args[1]) + 1 + JoinLen(Tail(args))

\* the tracking condition without the test of user_input
ShouldTrack_anyInput(returncode, user_input, stdout) ==
    returncode = 0 /\ stdout > 0

\* run_claude line 104: result.returncode == 0 and user_input and result.stdout
ShouldTrack(returncode, user_input, stdout) ==
    returncode = 0 /\ user_input > 0 /\ stdout > 0

\* a record that leaves the request count alone
Record_noRequest(u, user_input, stdout) ==
    LET input_tokens  == estimate_tokens(user_input)
        output_tokens == estimate_tokens(stdout)
    IN [u EXCEPT !.total_tokens = @ + input_tokens + output_tokens,
                 !.total_cost   = @ + estimate_cost(input_tokens, output_tokens)]

\* run_claude lines 105-112
Record(u, user_input, stdout) ==
    LET input_tokens  == estimate_tokens(user_input)
        output_tokens == estimate_tokens(stdout)
    IN [u EXCEPT !.total_tokens = @ + input_tokens + output_tokens,
                 !.total_cost   = @ + estimate_cost(input_tokens, output_tokens),
                 !.requests     = @ + 1]

\* show_progress: what the summary line prints of self.usage
show_progress(u) ==
    [session_start |-> u.session_start, total_tokens |-> u.total_tokens,
     requests |-> u.requests, rendered |-> TRUE]

\* the same values for an invocation that returned without printing the line
Unrendered(u) == [show_progress(u) EXCEPT !.rendered = FALSE]

IsSpecial(av) ==
    Len(av) = 1 /\ av[1] \in {"--reset-session", "--show-usage"}

ArgLists == UNION {[1..n -> ArgWords] : n \in 0..MaxArgs}

NoRet == [cmd |-> "none", outcome |-> "none", stdout |-> 0, user_input |-> 0,
          barShown |-> FALSE, invoked |-> FALSE, status |-> 0,
          before |-> FreshUsage(0), after |-> FreshUsage(0),
          recorded |-> 0, wrote |-> FALSE, now |-> 0]

(***************************************************************************)
(* Wrapper actions                                                         *)
(***************************************************************************)
\* the state file before the first invocation: none yet, or the one an
\* earlier run left after recording `claude hello` with 8 characters of output
InitialFiles == {NoFile, JsonFile(Record(FreshUsage(0), 5, 8))}

InitWrapper ==
    /\ clock = 0
    /\ file \in InitialFiles
    /\ pc = [p \in Procs |-> "idle"]
    /\ argv = [p \in Procs |-> <<>>]
    /\ usage = [p \in Procs |-> FreshUsage(0)]
    /\ loaded = [p \in Procs |-> FreshUsage(0)]
    /\ ret = [p \in Procs |-> NoRet]
    /\ seen = <<>>

IdleReader ==
    /\ lines = <<>>
    /\ scan = NotRun
    /\ stamp = [kind |-> "absent", start |-> 0]
    /\ utcnow = 0
    /\ reset = NotRun

\* main line 130: wrapper = ClaudeWrapper(), which loads the usage file
ClaudeWrapper_init(p, av) ==
    /\ pc[p] = "idle"
    /\ clock < MaxClock
    /\ clock' = clock + 1
    /\ LET u == load_usage(file, clock + 1)
       IN /\ usage' = [usage EXCEPT ![p] = u]
          /\ loaded' = [loaded EXCEPT ![p] = u]
    /\ argv' = [argv EXCEPT ![p] = av]
    /\ pc' = [pc EXCEPT ![p] = "main"]
    /\ ret' = [ret EXCEPT ![p] = NoRet]
    /\ UNCHANGED <<file, seen>>
    /\ UNCHANGED readerVars

\* main lines 133-143: --reset-session
reset_session(p, w) ==
    /\ pc[p] = "main"
    /\ Len(argv[p]) = 1 /\ argv[p][1] = "--reset-session"
    /\ LET u == FreshUsage(clock)
       IN /\ usage' = [usage EXCEPT ![p] = u]
          /\ file' = save_usage(file, u, w)
          /\ ret' = [ret EXCEPT ![p] =
                       [NoRet EXCEPT !.cmd = "reset",
                                     !.before = loaded[p], !.after = u,
                                     !.wrote = (w = "ok"), !.now = clock]]
    /\ seen' = <<>>
    /\ pc' = [pc EXCEPT ![p] = "idle"]
    /\ argv' = [argv EXCEPT ![p] = <<>>]
    /\ UNCHANGED <<clock, loaded>>
    /\ UNCHANGED readerVars

\* main lines 144-146: --show-usage
show_usage(p) ==
    /\ pc[p] = "main"
    /\ Len(argv[p]) = 1 /\ argv[p][1] = "--show-usage"
    /\ seen' = Append(seen, show_progress(usage[p]))
    /\ ret' = [ret EXCEPT ![p] =
                 [NoRet EXCEPT !.cmd = "show",
                               !.barShown = TRUE,
                               !.before = loaded[p], !.after = usage[p],
                               !.now = clock]]
    /\ pc' = [pc EXCEPT ![p] = "idle"]
    /\ argv' = [argv EXCEPT ![p] = <<>>]
    /\ UNCHANGED <<clock, file, usage, loaded>>
    /\ UNCHANGED readerVars

\* run_claude lines 122-127: subprocess.run raised; the error is printed and
\* 1 returned
run_claude_raises(p, outcome) ==
    /\ pc[p] = "main"
    /\ ~IsSpecial(argv[p])
    /\ outcome \in {"notfound", "error"}
    /\ seen' = Append(seen, Unrendered(usage[p]))
    /\ ret' = [ret EXCEPT ![p] =
                 [NoRet EXCEPT !.cmd = "run", !.outcome = outcome,
                               !.user_input = JoinLen(argv[p]),
                               !.status = 1,
                               !.before = loaded[p], !.after = usage[p],
                               !.now = clock]]
    /\ pc' = [pc EXCEPT ![p] = "idle"]
    /\ argv' = [argv EXCEPT ![p] = <<>>]
    /\ UNCHANGED <<clock, file, usage, loaded>>
    /\ UNCHANGED readerVars

\* run_claude lines 93-120: the tool ran and exited with returncode
run_claude_exits(p, returncode, stdout, w) ==
    /\ pc[p] = "main"
    /\ ~IsSpecial(argv[p])
    /\ LET user_input == JoinLen(argv[p])
           track == ShouldTrack(returncode, user_input, stdout)
           u == IF track THEN Record(usage[p], user_input, stdout) ELSE usage[p]
       IN /\ usage' = [usage EXCEPT ![p] = u]
          /\ file' = IF track THEN save_usage(file, u, w) ELSE file
          /\ seen' = Append(seen, show_progress(u))
          /\ ret' = [ret EXCEPT ![p] =
                       [cmd |-> "run",
                        outcome |-> IF returncode = 0 THEN "zero" ELSE "nonzero",
                        stdout |-> stdout, user_input |-> user_input,
                        barShown |-> TRUE, invoked |-> TRUE,
                        status |-> returncode,
                        before |-> loaded[p], after |-> u,
                        recorded |-> IF track THEN 1 ELSE 0,
                        wrote |-> track /\ w = "ok", now |-> clock]]
    /\ pc' = [pc EXCEPT ![p] = "idle"]
    /\ argv' = [argv EXCEPT ![p] = <<>>]
    /\ UNCHANGED <<clock, loaded>>
    /\ UNCHANGED readerVars

ReturnCodes == {0, 2}

Finish(p) ==
    \/ \E w \in WriteOutcomes : reset_session(p, w)
    \/ show_usage(p)
    \/ \E outcome \in {"notfound", "error"} : run_claude_raises(p, outcome)
    \/ \E returncode \in ReturnCodes, stdout \in OutLens, w \in WriteOutcomes :
          run_claude_exits(p, returncode, stdout, w)

\* invocations one after the other: a single process, run again and again
Init == InitWrapper /\ IdleReader

Next ==
    \/ \E av \in ArgLists : ClaudeWrapper_init(1, av)
    \/ Finish(1)

Spec == Init /\ [][Next]_vars

\* invocations that overlap on the same usage file: two wrapped calls may be
\* between their load and their save at the same time
RaceArgLists == {<<"hello">>, <<"hello", "hello">>}

NextRace ==
    \E p \in Procs :
        \/ \E av \in RaceArgLists : ClaudeWrapper_init(p, av)
        \/ \E outcome \in {"notfound", "error"} : run_claude_raises(p, outcome)
        \/ \E returncode \in ReturnCodes, stdout \in OutLens, w \in WriteOutcomes :
              run_claude_exits(p, returncode, stdout, w)

SpecRace == Init /\ [][NextRace]_vars

(***************************************************************************)
(* calculate_session_tokens.py: the session-log reader                     *)
(***************************************************************************)
MaxLines == 3       \* lines in a session log

Missing == -1       \* a key that is not in the usage object
NoTimestamp == 0    \* None, and a record without a 'timestamp' key

\* A log line is one of
\*   "garbage"    text json.loads rejects (JSONDecodeError)
\*   "misshapen"  valid JSON that is not a record object of the expected
\*                shape (5, "abc", [1], {"type":"assistant","message":"usage"}):
\*                lines 56-66 raise TypeError or AttributeError on it
\*   "object"     a record object: its type, its timestamp, whether it has
\*                message.usage, and the two counts
Garbage == [kind |-> "garbage", type |-> "", ts |-> NoTimestamp,
            usage |-> FALSE, input_tokens |-> Missing, output_tokens |-> Missing]
Misshapen == [Garbage EXCEPT !.kind = "misshapen"]

Rec(type, ts, hasUsage, inp, out) ==
    [kind |-> "object", type |-> type, ts |-> ts,
     usage |-> hasUsage, input_tokens |-> inp, output_tokens |-> out]

Timestamps == {1, 2}

Records ==
    {Rec("assistant", ts, FALSE, Missing, Missing) : ts \in {NoTimestamp} \cup Timestamps}
    \cup {Rec("assistant", ts, TRUE, c[1], c[2]) :
             ts \in {NoTimestamp} \cup Timestamps,
             c \in {<<1, Missing>>, <<Missing, 2>>, <<1, 2>>}}
    \cup {Rec("user", ts, u, IF u THEN 1 ELSE Missing, IF u THEN 2 ELSE Missing) :
             ts \in {NoTimestamp} \cup Timestamps, u \in BOOLEAN}

LogLines == Records \cup {Garbage, Misshapen}

LogFiles == UNION {[1..n -> LogLines] : n \in 0..MaxLines}

\* a record counted whatever its type
Qualifies_anyType(data) == data.usage

\* lines 60-62: type is "assistant" and the record has message.usage
Qualifies(data) == data.type = "assistant" /\ data.usage

\* the timestamp of the latest record that has one
TakeTimestamp_last(first_timestamp, data) ==
    IF data.ts # NoTimestamp THEN data.ts ELSE first_timestamp

\* lines 56-57: the first timestamp met is kept
TakeTimestamp(first_timestamp, data) ==
    IF data.ts # NoTimestamp /\ first_timestamp = NoTimestamp
    THEN data.ts ELSE first_timestamp

\* usage.get(key, 0)
Get(count) == IF count = Missing THEN 0 ELSE count

ScanStart == [input |-> 0, output |-> 0, first_timestamp |-> NoTimestamp,
              raised |-> FALSE]

\* lines 52-69: the body of the loop for one line
ScanLine(acc, line) ==
    IF acc.raised \/ line.kind = "garbage" THEN acc
    ELSE IF line.kind = "misshapen" THEN [acc EXCEPT !.raised = TRUE]
    ELSE LET first == TakeTimestamp(acc.first_timestamp, line)
         IN IF Qualifies(line)
            THEN [acc EXCEPT !.first_timestamp = first,
                             !.input = @ + Get(line.input_tokens),
                             !.output = @ + Get(line.output_tokens)]
            ELSE [acc EXCEPT !.first_timestamp = first]

RECURSIVE ScanLoop(_, _)
\* lines 51-69: the loop over the file
ScanLoop(acc, ls) ==
    IF Len(ls) = 0 THEN acc ELSE ScanLoop(ScanLine(acc, Head(ls)), Tail(ls))

Result(i, o, t) ==
    [state |-> "done", input |-> i, output |-> o, first_timestamp |-> t]

\* lines 45-75; an exception other than JSONDecodeError leaves the loop and
\* is caught at line 71, which returns 0, 0, None
calculate_session_tokens(ls) ==
    LET acc == ScanLoop(ScanStart, ls)
    IN IF acc.raised THEN Result(0, 0, NoTimestamp)
       ELSE Result(acc.input, acc.output, acc.first_timestamp)

InitScan ==
    /\ InitWrapper /\ file = NoFile
    /\ lines \in LogFiles
    /\ scan = NotRun
    /\ stamp = [kind |-> "absent", start |-> 0]
    /\ utcnow = 0
    /\ reset = NotRun

ReadSession ==
    /\ scan = NotRun
    /\ scan' = calculate_session_tokens(lines)
    /\ UNCHANGED <<lines, stamp, utcnow, reset>>
    /\ UNCHANGED wrapperVars

NextScan == ReadSession

SpecScan == InitScan /\ [][NextScan]_vars

(***************************************************************************)
(* calculate_session_tokens.py: the reset-time calculator                  *)
(***************************************************************************)
MaxStart == 1       \* latest session start, seconds
MaxNow == 18061     \* latest current time, seconds

SessionHours == 5

\* A first_timestamp is absent (None), text fromisoformat rejects, an ISO
\* timestamp without a UTC offset (parsed to a naive datetime), or one with
\* "Z" or an offset (parsed to an aware datetime); start is the time it
\* names, in seconds.
Stamps ==
    {[kind |-> "absent", start |-> 0], [kind |-> "unparsable", start |-> 0]}
    \cup [kind : {"naive", "aware"}, start : 0..MaxStart]

NoCountdown == [state |-> "done", countdown |-> FALSE, hours |-> 0, minutes |-> 0]
Countdown(h, m) == [state |-> "done", countdown |-> TRUE, hours |-> h, minutes |-> m]

\* minutes without taking the whole hours out first
Minutes_total(time_remaining) == time_remaining \div 60

\* line 93
Minutes(time_remaining) == (time_remaining % 3600) \div 60

\* line 92
Hours(time_remaining) == time_remaining \div 3600

\* lines 79-99.  Comparing the aware now with a naive reset_time raises
\* TypeError, which line 97 catches like a parse error.
calculate_reset_time(first_timestamp, now) ==
    IF first_timestamp.kind \in {"absent", "unparsable", "naive"} THEN NoCountdown
    ELSE LET reset_time == first_timestamp.start + SessionHours * 3600
         IN IF now >= reset_time THEN NoCountdown
            ELSE Countdown(Hours(reset_time - now), Minutes(reset_time - now))

InitResetTime ==
    /\ InitWrapper /\ file = NoFile
    /\ lines = <<>>
    /\ scan = NotRun
    /\ stamp \in Stamps
    /\ utcnow \in 0..MaxNow
    /\ reset = NotRun

ComputeReset ==
    /\ reset = NotRun
    /\ reset' = calculate_reset_time(stamp, utcnow)
    /\ UNCHANGED <<lines, scan, stamp, utcnow>>
    /\ UNCHANGED wrapperVars

NextResetTime == ComputeReset

SpecResetTime == InitResetTime /\ [][NextResetTime]_vars

(***************************************************************************)
(* Properties of the wrapper (Spec: invocations one after the other)       *)
(***************************************************************************)
Last == ret[1]

Estimated(r) == r.user_input \div 4 + r.stdout \div 4

CountersOf(u) == <<u.total_tokens, u.total_cost, u.requests>>

\* what one record adds to the state the invocation loaded
RecordedOnce(r) ==
    /\ r.recorded = 1
    /\ r.after.total_tokens = r.before.total_tokens + Estimated(r)
    /\ r.after.total_cost = r.before.total_cost
                              + 3 * (r.user_input \div 4) + 15 * (r.stdout \div 4)
    /\ r.after.requests = r.before.requests + 1

NothingRecorded(r) ==
    /\ r.recorded = 0
    /\ CountersOf(r.after) = CountersOf(r.before)

\* C1: every wrapped invocation has rendered the progress bar when it
\* returns, whatever the outcome (exit zero, exit non-zero, tool not found,
\* any other exception).
C1_BarRenderedOnEveryRun ==
    Last.cmd = "run" => Last.barShown

\* C2 as claimed: a wrapped invocation records usage exactly when the tool
\* exited zero with non-empty output, for any argument list, an empty one
\* included; otherwise total_tokens, total_cost and requests are unchanged.
C2_RecordedIffZeroAndOutput ==
    Last.cmd = "run" =>
        IF Last.outcome = "zero" /\ Last.stdout > 0
        THEN RecordedOnce(Last) ELSE NothingRecorded(Last)

\* C2 amended: a wrapped invocation records usage exactly when the tool
\* exited zero with non-empty output and the forwarded arguments joined by
\* spaces are non-empty text; it then adds the estimated tokens and cost
\* and one request; otherwise total_tokens, total_cost and requests are
\* unchanged.
C2_RecordedIffTracked ==
    Last.cmd = "run" =>
        IF Last.outcome = "zero" /\ Last.stdout > 0 /\ Last.user_input > 0
        THEN RecordedOnce(Last) ELSE NothingRecorded(Last)

C2_Witness ==
    /\ Last.cmd = "run" /\ Last.outcome = "zero"
    /\ Last.stdout > 0 /\ Last.user_input > 0
    /\ Last.before.requests = 1
    /\ Last.after.requests = 2
    /\ Last.after.total_tokens > Last.before.total_tokens

\* C3: with no reset among them, every invocation observes the session
\* start the first one observed.
C3_SessionStartStable ==
    \A i \in DOMAIN seen : seen[i].session_start = seen[1].session_start

\* C4: with no reset among them, the total_tokens and requests an
\* invocation renders are never smaller than those an earlier one rendered,
\* also when reads and writes of the state file fail.
C4_TotalsNeverDecrease ==
    \A i, j \in DOMAIN seen :
        (i < j /\ seen[i].rendered /\ seen[j].rendered) =>
            /\ seen[j].total_tokens >= seen[i].total_tokens
            /\ seen[j].requests >= seen[i].requests

\* C5: once the reset command has reported success, the persisted state is
\* zero tokens, zero cost, zero requests and the session start just set,
\* and the wrapped tool was not invoked.
C5_ResetPersistsFreshState ==
    Last.cmd = "reset" =>
        /\ file = JsonFile(FreshUsage(Last.now))
        /\ ~Last.invoked

(***************************************************************************)
(* Properties of overlapping invocations (SpecRace)                        *)
(***************************************************************************)
BothRecorded ==
    /\ \A p \in Procs : /\ pc[p] = "idle"
                         /\ ret[p].cmd = "run"
                         /\ ret[p].recorded = 1
                         /\ ret[p].wrote
    /\ CountersOf(ret[1].before) = CountersOf(ret[2].before)

\* C10: two recorded invocations that both loaded the state file before
\* either saved it leave the file with requests grown by one, not two, and
\* with the token estimate of only one of them.
C10_OverlapLosesUpdate ==
    BothRecorded =>
        /\ file.kind = "json"
        /\ file.data.requests = ret[1].before.requests + 1
        /\ \E p \in Procs :
              file.data.total_tokens = ret[1].before.total_tokens + Estimated(ret[p])
        /\ file.data.total_tokens
              < ret[1].before.total_tokens + Estimated(ret[1]) + Estimated(ret[2])

C10_Witness ==
    /\ BothRecorded
    /\ ret[1].before.requests = 1
    /\ file.data.requests = 2
    /\ Estimated(ret[1]) # Estimated(ret[2])

(***************************************************************************)
(* Properties of the session-log reader (SpecScan)                         *)
(***************************************************************************)
RECURSIVE SumOver(_, _)
SumOver(S, f) ==
    IF S = {} THEN 0
    ELSE LET x == CHOOSE y \in S : TRUE IN f[x] + SumOver(S \ {x}, f)

\* the records the accounting is about
Counted(ls) ==
    {i \in DOMAIN ls : ls[i].kind = "object" /\ ls[i].type = "assistant" /\ ls[i].usage}

SumInput(ls) ==
    SumOver(Counted(ls),
            [i \in DOMAIN ls |-> IF ls[i].input_tokens = Missing THEN 0
                                 ELSE ls[i].input_tokens])

SumOutput(ls) ==
    SumOver(Counted(ls),
            [i \in DOMAIN ls |-> IF ls[i].output_tokens = Missing THEN 0
                                 ELSE ls[i].output_tokens])

Without(ls, i) == SubSeq(ls, 1, i - 1) \o SubSeq(ls, i + 1, Len(ls))

Stamped(ls) == {i \in DOMAIN ls : ls[i].kind = "object" /\ ls[i].ts # NoTimestamp}

\* the timestamp of the first record, of any kind, that has one
FirstStamp(ls) ==
    IF Stamped(ls) = {} THEN NoTimestamp
    ELSE ls[CHOOSE i \in Stamped(ls) : \A j \in Stamped(ls) : i <= j].ts

Abandoned(ls) == \E i \in DOMAIN ls : ls[i].kind = "misshapen"

\* C6: one malformed line (not JSON, or JSON that is not a record object of
\* the expected shape) among valid lines leaves both totals equal to the
\* totals of the valid lines alone.
C6_MalformedLineSkipped ==
    scan # NotRun =>
        \A i \in DOMAIN lines :
            (/\ lines[i].kind \in {"garbage", "misshapen"}
             /\ \A j \in DOMAIN lines \ {i} : lines[j].kind = "object")
            => /\ scan.input = SumInput(Without(lines, i))
               /\ scan.output = SumOutput(Without(lines, i))

\* C7 as claimed: a log without a qualifying assistant record gives totals
\* 0 and 0 and no first_timestamp, also when other records carry a
\* timestamp.
C7_NoQualifyingGivesAbsent ==
    (scan # NotRun /\ Counted(lines) = {}) =>
        scan = Result(0, 0, NoTimestamp)

\* C7 amended: a log without a qualifying assistant record gives totals 0
\* and 0, and first_timestamp is the timestamp of the first record of any
\* kind that carries one; it is absent only when no record carries one or
\* when the scan was abandoned on a line that is valid JSON but not a
\* record object.
C7_NoQualifyingGivesFirstStamp ==
    (scan # NotRun /\ Counted(lines) = {}) =>
        /\ scan.input = 0
        /\ scan.output = 0
        /\ scan.first_timestamp =
              IF Abandoned(lines) THEN NoTimestamp ELSE FirstStamp(lines)

C7_Witness ==
    /\ scan # NotRun
    /\ Counted(lines) = {}
    /\ Len(lines) = 3
    /\ lines[1].kind = "object" /\ lines[1].ts = NoTimestamp
    /\ lines[2].kind = "object" /\ lines[2].ts = 2
    /\ lines[3].kind = "object" /\ lines[3].ts = 1
    /\ scan.first_timestamp = 2

WellFormed(ls) == \A i \in DOMAIN ls : ls[i].kind = "object"

Permuted(ls, pi) == [i \in DOMAIN ls |-> ls[pi[i]]]

\* C8: for well-formed records the totals are the sums of input_tokens and
\* of output_tokens over exactly the assistant records that carry a usage
\* object, a missing count adding zero, and every permutation of the
\* records gives the same totals.
C8_TotalsAreSums ==
    (scan # NotRun /\ WellFormed(lines)) =>
        /\ scan.input = SumInput(lines)
        /\ scan.output = SumOutput(lines)
        /\ \A pi \in Permutations(DOMAIN lines) :
              LET other == calculate_session_tokens(Permuted(lines, pi))
              IN other.input = scan.input /\ other.output = scan.output

C8_Witness ==
    /\ scan # NotRun
    /\ WellFormed(lines)
    /\ Len(lines) = 3
    /\ lines[1] = Rec("user", 1, TRUE, 1, 2)
    /\ lines[2] = Rec("assistant", 2, TRUE, 1, Missing)
    /\ lines[3] = Rec("assistant", NoTimestamp, TRUE, 1, 2)
    /\ scan.input = 2
    /\ scan.output = 2

(***************************************************************************)
(* Properties of the reset-time calculator (SpecResetTime)                 *)
(***************************************************************************)
\* no countdown once five hours have passed, and before that the hours and
\* minutes that truncate the remaining seconds
TruncatedCountdown ==
    LET remaining == stamp.start + 18000 - utcnow
    IN IF remaining <= 0 THEN ~reset.countdown
       ELSE /\ reset.countdown
            /\ reset.hours >= 0
            /\ reset.minutes >= 0 /\ reset.minutes <= 59
            /\ reset.hours * 3600 + reset.minutes * 60 <= remaining
            /\ remaining < reset.hours * 3600 + reset.minutes * 60 + 60

====
